---------------------------- MODULE Spec2Model ----------------------------
(***************************************************************************)
(* A model of sp-backend's SpClient (src/src/spclient.rs): the store of    *)
(* owned outputs with its spend-status state machine, and the PSBT         *)
(* pipeline create_new_psbt -> set_fees -> fill_sp_outputs -> sign_psbt -> *)
(* finalize_psbt.                                                          *)
(*                                                                         *)
(* Five specifications share the variables:                                *)
(*   Spec      the owned-output store and its operations;                  *)
(*   SpecPsbt  the PSBT operations on a PSBT the caller holds;             *)
(*   SpecSign  signing and finalizing a PSBT the caller hands in;          *)
(*   SpecApi   the calls of api.rs on the wallet record on disk and on the *)
(*             nakamoto client;                                            *)
(*   SpecKeys  the making of a wallet's keys.                              *)
(***************************************************************************)
EXTENDS Integers, Sequences, FiniteSets, TLC

VARIABLES
    owned,      \* SpClient.owned: the map OutPoint -> OwnedOutput
    last_scan,  \* SpClient.last_scan
    birthday,   \* SpClient.birthday
    spend_key,  \* SpClient.spend_key: "Secret" or "Public" (the variant)
    is_testnet, \* SpClient.sp_receiver.is_testnet
    psbt,       \* the Psbt the caller holds (None: no PSBT yet)
    ret,        \* the last call: what it returned, and what it handed to the
                \* amount stream and to the FileWriter
    disk,       \* the wallet record the FileWriter keeps for the label (None:
                \* no record)
    nakamoto    \* the nakamoto clients started and not stopped

vars == <<owned, last_scan, birthday, spend_key, is_testnet, psbt, ret, disk, nakamoto>>

-----------------------------------------------------------------------------
(* Bounds of the model.                                                    *)

\* Block heights range over 0..MaxHeight.
MaxHeight == 2

\* A transaction handed to mark_transaction_inputs_as_spent has at most
\* MaxTxInputs inputs; a vector handed to extend_owned at most MaxExtend pairs.
MaxTxInputs == 2

MaxExtend == 2

\* create_new_psbt is handed at most MaxInputs inputs.
MaxInputs == 2

-----------------------------------------------------------------------------
(* The owned-output store.                                                 *)

\* Option<T>: None is the empty sequence, Some(x) the sequence of x alone.
None == <<>>

Some(x) == <<x>>

\* The outpoints of the chain the wallet may come to own.  An outpoint names
\* one transaction output, so its amount and the height of its block are
\* fixed by the chain.
OutPoints == {"o1", "o2"}

AmountOf(o) == IF o = "o1" THEN 1000 ELSE 2000

HeightOf(o) == IF o = "o1" THEN 1 ELSE 2

Txids == {"t1", "t2"}

BlockHashes == {"b1", "b2"}

\* enum OutputSpendStatus
Unspent == [kind |-> "Unspent", id |-> "-"]

Spent(txid) == [kind |-> "Spent", id |-> txid]

Mined(blkhash) == [kind |-> "Mined", id |-> blkhash]

OutputSpendStatus ==
    {Unspent} \cup {Spent(t) : t \in Txids} \cup {Mined(b) : b \in BlockHashes}

\* A script_pubkey: its type (which fixes its length) and the key or address
\* it pays to.
Script(type, addr, n) == [type |-> type, key |-> [addr |-> addr, n |-> n]]

\* struct OwnedOutput; tweak and script are hex strings.
OwnedOutput(o, status) ==
    [txoutpoint |-> o, blockheight |-> HeightOf(o), tweak |-> "tweak32",
     amount |-> AmountOf(o), script |-> Script("p2tr", o, 0),
     spend_status |-> status]

OwnedOutputs == {OwnedOutput(o, s) : o \in OutPoints, s \in OutputSpendStatus}

Keys(map) == DOMAIN map

RECURSIVE SumAmounts(_, _)
SumAmounts(map, S) ==
    IF S = {} THEN 0
    ELSE LET o == CHOOSE x \in S : TRUE
         IN  map[o].amount + SumAmounts(map, S \ {o})

\* get_spendable_amt: the fold over the outputs whose status is Unspent
get_spendable_amt(map) ==
    SumAmounts(map, {o \in Keys(map) : map[o].spend_status = Unspent})

\* get_unconfirmed_amt with the filter matching every status but Unspent
get_unconfirmed_amt_NotUnspent(map) ==
    SumAmounts(map, {o \in Keys(map) : map[o].spend_status # Unspent})

\* get_unconfirmed_amt: the fold over the outputs whose status is Spent(_)
get_unconfirmed_amt(map) ==
    SumAmounts(map, {o \in Keys(map) : map[o].spend_status.kind = "Spent"})

\* The last call: its name, whether it returned Ok, whether it aborted (a
\* panic), its argument, the amount it sent on the amount stream and the
\* snapshot the FileWriter wrote for it.
Ret(op, ok, arg) ==
    [op |-> op, ok |-> ok, abort |-> FALSE, arg |-> arg, sent |-> None, saved |-> None]

\* SpClient::new: no owned output, last_scan one below the birthday.
NewLastScan(b) == IF b = 0 THEN 0 ELSE b - 1

Init ==
    /\ owned = <<>>
    /\ birthday \in 0..MaxHeight
    /\ last_scan = NewLastScan(birthday)
    /\ spend_key = "Secret"
    /\ is_testnet = FALSE
    /\ psbt = None
    /\ ret = Ret("new", TRUE, "-")
    /\ disk = None
    /\ nakamoto = 0

\* HashMap::extend: the pairs are inserted in order, a later pair for a key
\* replaces the entry the key had.
Insert(map, k, v) ==
    [o \in DOMAIN map \cup {k} |-> IF o = k THEN v ELSE map[o]]

RECURSIVE Extend(_, _)
Extend(map, vec) ==
    IF vec = <<>> THEN map
    ELSE Extend(Insert(map, Head(vec)[1], Head(vec)[2]), Tail(vec))

\* The vectors handed to extend_owned: the scanner hands over the outputs it
\* has just found in a block, each Unspent.
ExtendVecs ==
    UNION {[1..n -> {<<o, OwnedOutput(o, Unspent)>> : o \in OutPoints}] : n \in 0..MaxExtend}

extend_owned(vec) ==
    /\ owned' = Extend(owned, vec)
    /\ ret' = Ret("extend_owned", TRUE, "-")
    /\ UNCHANGED <<disk, nakamoto, last_scan, birthday, spend_key, is_testnet, psbt>>

\* mark_outpoint_spent without the match on Unspent
MarkSpent_AnyStatus(map, outpoint, txid) ==
    IF outpoint \in DOMAIN map
    THEN <<[map EXCEPT ![outpoint].spend_status = Spent(txid)], TRUE>>
    ELSE <<map, FALSE>>

\* mark_outpoint_spent on a map: <<the map afterwards, Ok?>>
MarkSpent(map, outpoint, txid) ==
    IF outpoint \in DOMAIN map
    THEN IF map[outpoint].spend_status = Unspent
         THEN <<[map EXCEPT ![outpoint].spend_status = Spent(txid)], TRUE>>
         ELSE <<map, FALSE>>    \* "owned outpoint is already spent"
    ELSE <<map, FALSE>>         \* "owned outpoint not found"

mark_outpoint_spent(outpoint, txid) ==
    /\ owned' = MarkSpent(owned, outpoint, txid)[1]
    /\ ret' = Ret("mark_outpoint_spent", MarkSpent(owned, outpoint, txid)[2], outpoint)
    /\ UNCHANGED <<disk, nakamoto, last_scan, birthday, spend_key, is_testnet, psbt>>

\* mark_outpoint_mined without the match on Mined(_)
MarkMined_NoCheck(map, outpoint, blkhash) ==
    IF outpoint \in DOMAIN map
    THEN <<[map EXCEPT ![outpoint].spend_status = Mined(blkhash)], TRUE>>
    ELSE <<map, FALSE>>

\* mark_outpoint_mined on a map: <<the map afterwards, Ok?>>
MarkMined(map, outpoint, blkhash) ==
    IF outpoint \in DOMAIN map
    THEN IF map[outpoint].spend_status.kind = "Mined"
         THEN <<map, FALSE>>    \* "owned outpoint is already mined"
         ELSE <<[map EXCEPT ![outpoint].spend_status = Mined(blkhash)], TRUE>>
    ELSE <<map, FALSE>>         \* "owned outpoint not found"

mark_outpoint_mined(outpoint, blkhash) ==
    /\ owned' = MarkMined(owned, outpoint, blkhash)[1]
    /\ ret' = Ret("mark_outpoint_mined", MarkMined(owned, outpoint, blkhash)[2], outpoint)
    /\ UNCHANGED <<disk, nakamoto, last_scan, birthday, spend_key, is_testnet, psbt>>

\* A transaction: its txid and the previous outputs of its inputs.
Transactions ==
    {[txid |-> t, input |-> ins] :
        t \in Txids, ins \in UNION {[1..n -> OutPoints] : n \in 0..MaxTxInputs}}

\* The loop of mark_transaction_inputs_as_spent: mark_outpoint_spent on each
\* input in order, on the wallet's own map; `?` returns at the first error.
RECURSIVE MarkInputs(_, _, _)
MarkInputs(map, inputs, txid) ==
    IF inputs = <<>> THEN <<map, TRUE>>
    ELSE LET r == MarkSpent(map, Head(inputs), txid)
         IN  IF r[2] THEN MarkInputs(r[1], Tail(inputs), txid)
             ELSE <<r[1], FALSE>>

\* What save_to_disk writes: the serialized SpClient.
Snapshot(map, scan) ==
    [owned |-> map, last_scan |-> scan, birthday |-> birthday, spend_key |-> spend_key]

\* io_ok: whether the FileWriter's write succeeds.
mark_transaction_inputs_as_spent(tx, io_ok) ==
    LET r == MarkInputs(owned, tx.input, tx.txid)
    IN  /\ owned' = r[1]
        /\ ret' = IF r[2]
                  THEN [Ret("mark_transaction_inputs_as_spent", io_ok, tx) EXCEPT
                            !.sent = Some(get_spendable_amt(r[1])),
                            !.saved = IF io_ok THEN Some(Snapshot(r[1], last_scan))
                                      ELSE None]
                  ELSE Ret("mark_transaction_inputs_as_spent", FALSE, tx)
        /\ UNCHANGED <<disk, nakamoto, last_scan, birthday, spend_key, is_testnet, psbt>>

\* reset_from_blockheight keeping only the outputs found below the height
ResetOwned_Below(map, blockheight) ==
    [o \in {k \in DOMAIN map : map[k].blockheight < blockheight} |-> map[o]]

\* reset_from_blockheight: the outputs found at or below the height are kept.
ResetOwned(map, blockheight) ==
    [o \in {k \in DOMAIN map : map[k].blockheight <= blockheight} |-> map[o]]

reset_from_blockheight(blockheight) ==
    /\ owned' = ResetOwned(owned, blockheight)
    /\ last_scan' = blockheight
    /\ ret' = Ret("reset_from_blockheight", TRUE, blockheight)
    /\ UNCHANGED <<disk, nakamoto, birthday, spend_key, is_testnet, psbt>>

update_last_scan(scan_height) ==
    /\ last_scan' = scan_height
    /\ ret' = Ret("update_last_scan", TRUE, scan_height)
    /\ UNCHANGED <<disk, nakamoto, owned, birthday, spend_key, is_testnet, psbt>>

Next ==
    \/ \E vec \in ExtendVecs : extend_owned(vec)
    \/ \E o \in OutPoints, t \in Txids : mark_outpoint_spent(o, t)
    \/ \E o \in OutPoints, b \in BlockHashes : mark_outpoint_mined(o, b)
    \/ \E tx \in Transactions, io_ok \in BOOLEAN :
            mark_transaction_inputs_as_spent(tx, io_ok)
    \/ \E h \in 0..MaxHeight : reset_from_blockheight(h)
    \/ \E h \in 0..MaxHeight : update_last_scan(h)

Spec == Init /\ [][Next]_vars

-----------------------------------------------------------------------------
(* The store's claims, checked under Spec.                                 *)

IsMark(op) == op \in {"mark_outpoint_spent", "mark_outpoint_mined"}

\* C1: once an owned output is Mined, every mark_outpoint_spent and
\* mark_outpoint_mined call leaves its status as it is, and the call on that
\* output fails; and mark_outpoint_spent on an output that is already Spent
\* fails and leaves its status as it is.
C1_MinedIsTerminalForMarks ==
    [][IsMark(ret'.op) =>
        \A o \in DOMAIN owned :
            /\ owned[o].spend_status.kind = "Mined" =>
                    /\ o \in DOMAIN owned'
                    /\ owned'[o].spend_status = owned[o].spend_status
                    /\ (ret'.arg = o => ~ret'.ok)
            /\ ( /\ ret'.op = "mark_outpoint_spent"
                 /\ ret'.arg = o
                 /\ owned[o].spend_status.kind = "Spent" ) =>
                    /\ ~ret'.ok
                    /\ o \in DOMAIN owned'
                    /\ owned'[o].spend_status = owned[o].spend_status]_vars

\* A mark_* call has just failed on an output that is Mined.
C1_Witness ==
    /\ IsMark(ret.op)
    /\ ~ret.ok
    /\ ret.arg \in DOMAIN owned
    /\ owned[ret.arg].spend_status.kind = "Mined"

MinedAmt(map) ==
    SumAmounts(map, {o \in Keys(map) : map[o].spend_status.kind = "Mined"})

\* C2: in every reachable state the spendable amount, the unconfirmed amount
\* and the amounts of the Mined outputs add up to the amounts of all owned
\* outputs.
C2_BalanceConsistency ==
    get_spendable_amt(owned) + get_unconfirmed_amt(owned) + MinedAmt(owned)
        = SumAmounts(owned, DOMAIN owned)

\* The wallet owns a Spent and a Mined output after marking a transaction.
C2_Witness ==
    /\ ret.op = "mark_transaction_inputs_as_spent"
    /\ \E o \in DOMAIN owned : owned[o].spend_status.kind = "Spent"
    /\ \E o \in DOMAIN owned : owned[o].spend_status.kind = "Mined"

Range(seq) == {seq[i] : i \in DOMAIN seq}

\* C3: mark_transaction_inputs_as_spent is all-or-nothing: when it returns Ok
\* every owned input of the transaction is Spent(txid), the state was written
\* by the FileWriter and the spendable amount was sent on the amount stream;
\* when it returns Err the owned map is what it was before the call.
C3_MarkTransactionAllOrNothing ==
    [][ret'.op = "mark_transaction_inputs_as_spent" =>
        IF ret'.ok
        THEN /\ \A o \in Range(ret'.arg.input) \cap DOMAIN owned :
                    o \in DOMAIN owned' /\ owned'[o].spend_status = Spent(ret'.arg.txid)
             /\ ret'.saved = Some(Snapshot(owned', last_scan'))
             /\ ret'.sent = Some(get_spendable_amt(owned'))
        ELSE owned' = owned]_vars

Rank(status) ==
    CASE status.kind = "Unspent" -> 0
      [] status.kind = "Spent" -> 1
      [] status.kind = "Mined" -> 2

\* C4: across every operation but reset_from_blockheight, the spend_status of
\* an owned output never moves backwards in Unspent < Spent < Mined.
C4_StatusMonotonic ==
    [][ret'.op # "reset_from_blockheight" =>
        \A o \in DOMAIN owned :
            /\ o \in DOMAIN owned'
            /\ Rank(owned'[o].spend_status) >= Rank(owned[o].spend_status)]_vars

-----------------------------------------------------------------------------
(* Integers of the machine.  TLC's integers are 32 bits wide, so the u64   *)
(* and u32 of the code are modelled by narrower words: every sum, product  *)
(* and difference of the code is reduced modulo the word's modulus, and    *)
(* reports whether the exact result left the word.  An overflow aborts a   *)
(* build with overflow checks and wraps in a build without them.           *)

\* u64::MAX + 1 of the model
ModU64 == 1048576

\* u32::MAX + 1 of the model
ModU32 == 1024

\* constants::DUST_THRESHOLD
DUST_THRESHOLD == 546

Word(val, ovf) == [val |-> val, ovf |-> ovf]

AddU64(a, b) == Word((a + b) % ModU64, a + b >= ModU64)

SubU64(a, b) == Word((a - b + ModU64) % ModU64, b > a)

MulU32(a, b) == Word((a * b) % ModU32, a * b >= ModU32)

-----------------------------------------------------------------------------
(* Addresses.                                                              *)

\* The silent-payment addresses, in the spelling to_string gives them.
\* "sp1xl" is a labelled address of the receiver of "sp1x": they share the
\* scan key.  "sp1change"/"tsp1change" are the wallet's change addresses.
SpAddresses == {"sp1x", "sp1xl", "sp1change", "tsp1z", "tsp1change"}

\* SilentPaymentAddress::try_from(string): Some(address) or None.  The bech32m
\* encoding is case-insensitive: the upper-case spelling names the same address.
SpParse(str) ==
    CASE str \in SpAddresses -> Some(str)
      [] str = "SP1X" -> Some("sp1x")
      [] OTHER -> None

IsSp(str) == SpParse(str) # None

\* SilentPaymentAddress::is_testnet
SpIsTestnet(a) == a \in {"tsp1z", "tsp1change"}

\* The scan public key of a silent-payment address.
ScanKey(a) ==
    CASE a \in {"sp1x", "sp1xl"} -> "scanX"
      [] a \in {"sp1change", "tsp1change"} -> "scanW"
      [] OTHER -> "scanZ"

\* Address::from_str on a string that is no silent-payment address.
NormalAddresses == {"bc1q", "tb1q"}

AddrParse(str) == IF str \in NormalAddresses THEN Some(str) ELSE None

AddrIsTestnet(a) == a # "bc1q"

\* Address::script_pubkey
AddrScript(a) == Script("p2wpkh", a, 0)

\* sp_receiver.get_change_address()
ChangeAddress == IF is_testnet THEN "tsp1change" ELSE "sp1change"

\* sp_receiver.get_receiving_address()
ReceivingAddress == IF is_testnet THEN "tsp1recv" ELSE "sp1recv"

\* ScriptBuf::new_p2tr_tweaked(NUMS)
placeholder_spk == Script("p2tr", "NUMS", 0)

-----------------------------------------------------------------------------
(* The PSBT.                                                               *)

TxIn(prev) == [previous_output |-> prev]

TxOut(value, spk) == [value |-> value, script_pubkey |-> spk]

\* psbt::Input: `tweak` is the proprietary record {"sp", 0, "tweak"}, a byte
\* vector given by its length and the scalar it encodes.
DefaultInput ==
    [witness_utxo |-> None, tweak |-> None, tap_key_sig |-> None,
     final_script_witness |-> None, sighash_type |-> None, partial_sigs |-> {},
     redeem_script |-> None, witness_script |-> None, bip32_derivation |-> {}]

\* psbt::Output: `address` is the proprietary record {"sp", 0, "address"}, the
\* serialized string.
DefaultOutput == [address |-> None]

Bytes(len, val) == [len |-> len, val |-> val]

\* Scalar::from_be_bytes(FromHex::from_hex(tweak)): a 32-byte array that is a
\* scalar below the curve order, or an error.
TweakFromHex(hex) == IF hex = "tweak32" THEN Some(Bytes(32, hex)) ELSE None

\* Scalar::to_be_bytes().to_vec()
TweakToBytes(scalar) == Bytes(32, scalar.val)

\* struct Recipient
Recipient(address, amount, nb_outputs) ==
    [address |-> address, amount |-> amount, nb_outputs |-> nb_outputs]

\* What a call on a PSBT yields: "Ok" or "Err" (a returned Result) or "Abort"
\* (a panic), and the PSBT it leaves.
Outcome(res, p) == [res |-> res, psbt |-> p]

\* The first loop of create_new_psbt: <<result, total_input_amount>>.
RECURSIVE InputsLoop(_, _, _)
InputsLoop(inputs, total, overflow_checks) ==
    IF inputs = <<>> THEN <<"Ok", total>>
    ELSE LET i == Head(inputs)
             sum == AddU64(total, i.amount)
         IN  IF TweakFromHex(i.tweak) = None THEN <<"Err", total>>
             ELSE IF sum.ovf /\ overflow_checks THEN <<"Abort", total>>
             ELSE InputsLoop(Tail(inputs), sum.val, overflow_checks)

\* The script of the output made for one recipient, or None (the address does
\* not parse, or is of the other network).
RecipientScript(o) ==
    IF IsSp(o.address)
    THEN IF is_testnet # SpIsTestnet(SpParse(o.address)[1]) THEN None
         ELSE Some(placeholder_spk)
    ELSE IF AddrParse(o.address) = None THEN None
         ELSE IF is_testnet # AddrIsTestnet(AddrParse(o.address)[1]) THEN None
         ELSE Some(AddrScript(AddrParse(o.address)[1]))

\* The map over the recipients: <<result, outputs, total_output_amount>>.
RECURSIVE OutputsLoop(_, _, _, _)
OutputsLoop(recipients, outputs, total, overflow_checks) ==
    IF recipients = <<>> THEN <<"Ok", outputs, total>>
    ELSE LET o == Head(recipients)
             spk == RecipientScript(o)
             sum == AddU64(total, o.amount)
         IN  IF spk = None THEN <<"Err", outputs, total>>
             ELSE IF sum.ovf /\ overflow_checks THEN <<"Abort", outputs, total>>
             ELSE OutputsLoop(Tail(recipients),
                              Append(outputs, TxOut(o.amount, spk[1])),
                              sum.val, overflow_checks)

\* The psbt::Input made for one input of create_new_psbt.
PsbtInputOf(i) ==
    [DefaultInput EXCEPT
        !.witness_utxo = Some(TxOut(i.amount, i.script)),
        !.tweak = Some(TweakToBytes(TweakFromHex(i.tweak)[1]))]

\* A create_new_psbt that attached the address record to every output: C5
\* tells it from the code.
PsbtOutputOf_EveryRecipient(recipient) ==
    [DefaultOutput EXCEPT !.address = Some(recipient.address)]

\* The psbt::Output made for one recipient of create_new_psbt.
PsbtOutputOf(recipient) ==
    IF IsSp(recipient.address)
    THEN [DefaultOutput EXCEPT !.address = Some(SpParse(recipient.address)[1])]
    ELSE DefaultOutput

\* One element of the transaction and of the PSBT per input, and one per
\* recipient.
BuildPsbt(inputs, recipients, outputs) ==
    [unsigned_tx |->
        [input |-> [k \in DOMAIN inputs |-> TxIn(inputs[k].txoutpoint)],
         output |-> outputs],
     inputs |-> [k \in DOMAIN inputs |-> PsbtInputOf(inputs[k])],
     outputs |-> [k \in DOMAIN outputs |-> PsbtOutputOf(recipients[k])]]

\* create_new_psbt(inputs, recipients): Ok with the PSBT, Err, or Abort.
CreateNewPsbt(inputs, recipients, overflow_checks) ==
    LET ins == InputsLoop(inputs, 0, overflow_checks)
        outs == OutputsLoop(recipients, <<>>, 0, overflow_checks)
        change == SubU64(ins[2], outs[3])
        change_amt == change.val
        with_change == change_amt > DUST_THRESHOLD
        outputs == IF with_change
                   THEN Append(outs[2], TxOut(change_amt, placeholder_spk))
                   ELSE outs[2]
        all_recipients == IF with_change
                          THEN Append(recipients, Recipient(ChangeAddress, change_amt, 1))
                          ELSE recipients
    IN  IF ins[1] # "Ok" THEN Outcome(ins[1], None)
        ELSE IF outs[1] # "Ok" THEN Outcome(outs[1], None)
        ELSE IF change.ovf /\ overflow_checks THEN Outcome("Abort", None)
        ELSE Outcome("Ok", Some(BuildPsbt(inputs, all_recipients, outputs)))

-----------------------------------------------------------------------------
(* Finalizing, fake signing and the size of the transaction.               *)

\* taproot::Signature
Signature(sig, hash_ty) == [sig |-> sig, hash_ty |-> hash_ty]

\* Signature::to_vec: the 64 bytes of the signature, and one byte more for a
\* sighash type other than Default.
SigToVec(sig) == Bytes(IF sig.hash_ty = "Default" THEN 64 ELSE 65, sig.sig)

\* A finalize_psbt that left the sighash type in place: C10 tells it from the
\* code.
FinalizeInput_KeepSighashType(i) ==
    [i EXCEPT !.final_script_witness = Some(<<SigToVec(i.tap_key_sig[1])>>),
              !.tap_key_sig = None,
              !.partial_sigs = {},
              !.redeem_script = None,
              !.witness_script = None,
              !.bip32_derivation = {}]

\* The closure of finalize_psbt on one input that has a tap_key_sig.
FinalizeInput(i) ==
    [i EXCEPT !.final_script_witness = Some(<<SigToVec(i.tap_key_sig[1])>>),
              !.tap_key_sig = None,
              !.partial_sigs = {},
              !.sighash_type = None,
              !.redeem_script = None,
              !.witness_script = None,
              !.bip32_derivation = {}]

\* The for_each of finalize_psbt, from input k on: the inputs are finalized in
\* order and an input without a tap_key_sig panics.
RECURSIVE FinalizeFrom(_, _)
FinalizeFrom(p, k) ==
    IF k > Len(p.inputs) THEN Outcome("Ok", p)
    ELSE IF p.inputs[k].tap_key_sig = None THEN Outcome("Abort", p)
    ELSE FinalizeFrom([p EXCEPT !.inputs[k] = FinalizeInput(@)], k + 1)

FinalizePsbt(p) == FinalizeFrom(p, 1)

RECURSIVE SumSeq(_)
SumSeq(seq) == IF seq = <<>> THEN 0 ELSE Head(seq) + SumSeq(Tail(seq))

\* Psbt::extract_tx: Some(the PSBT whose transaction is extracted), or None
\* when Psbt::fee fails: an input has no utxo, a checked sum of the amounts
\* leaves the u64, or the outputs exceed the inputs.  (The fee rate set_fees
\* leaves behind the dust check is far below the limit of extract_tx.)
ExtractTx(p) ==
    IF \E k \in DOMAIN p.inputs : p.inputs[k].witness_utxo = None THEN None
    ELSE LET ins == SumSeq([k \in DOMAIN p.inputs |-> p.inputs[k].witness_utxo[1].value])
             outs == SumSeq([k \in DOMAIN p.unsigned_tx.output |->
                                p.unsigned_tx.output[k].value])
         IN  IF ins >= ModU64 \/ outs >= ModU64 \/ outs > ins THEN None
             ELSE Some(p)

\* sign_psbt_fake: every input of the clone gets the signature made of 64
\* bytes of 1, the clone is finalized and its transaction extracted; None is
\* the panic of expect("Invalid fake tx").
SignPsbtFake(p) ==
    ExtractTx(FinalizePsbt([p EXCEPT !.inputs =
        [k \in DOMAIN p.inputs |->
            [p.inputs[k] EXCEPT !.tap_key_sig = Some(Signature("fake", "Default"))]]]).psbt)

ScriptLen(spk) == IF spk.type = "p2tr" THEN 34 ELSE 22

\* The bytes of an input's witness: the count of its items, and each item
\* with its length.
WitnessSize(i) ==
    IF i.final_script_witness = None THEN 1
    ELSE 1 + SumSeq([k \in DOMAIN i.final_script_witness[1] |->
                        1 + i.final_script_witness[1][k].len])

\* Transaction::vsize of the transaction extract_tx gives: the weight is four
\* times the size without witnesses plus the size of the witnesses (with the
\* marker and the flag), and the virtual size a quarter of it, rounded up.
VSize(p) ==
    LET base == 4 + 1 + 41 * Len(p.unsigned_tx.input) + 1
                + SumSeq([k \in DOMAIN p.unsigned_tx.output |->
                            8 + 1 + ScriptLen(p.unsigned_tx.output[k].script_pubkey)])
                + 4
        segwit == \E k \in DOMAIN p.inputs : p.inputs[k].final_script_witness # None
        witness == IF segwit
                   THEN 2 + SumSeq([k \in DOMAIN p.inputs |-> WitnessSize(p.inputs[k])])
                   ELSE 0
    IN  (4 * base + witness + 3) \div 4

-----------------------------------------------------------------------------
(* set_fees.                                                               *)

\* The outputs that carry an address record.
WithAddress(p) == {k \in DOMAIN p.outputs : p.outputs[k].address # None}

\* payer_vouts of set_fees for a payer that is the silent-payment address
\* sp_address: the outputs whose address record parses to it.
SpPayerVouts(p, sp_address) ==
    {k \in WithAddress(p) : SpParse(p.outputs[k].address[1]) = Some(sp_address)}

\* payer_vouts for a payer that is a normal address.
AddrPayerVouts(p, address) ==
    {k \in DOMAIN p.unsigned_tx.output :
        p.unsigned_tx.output[k].script_pubkey = AddrScript(address)}

RECURSIVE FoldU64(_, _, _)
FoldU64(seq, total, overflow_checks) ==
    IF seq = <<>> THEN <<"Ok", total>>
    ELSE LET sum == AddU64(total, Head(seq))
         IN  IF sum.ovf /\ overflow_checks THEN <<"Abort", total>>
             ELSE FoldU64(Tail(seq), sum.val, overflow_checks)

\* What set_fees computed, for the record of the call; err is the message of
\* the error it returned ("-" without one).
FeeInfo(fee_rate, payer, dust, vsize, fee_amt, deduce_from, err) ==
    [fee_rate |-> fee_rate, payer |-> payer, dust |-> dust, vsize |-> vsize,
     fee_amt |-> fee_amt, deduce_from |-> deduce_from, err |-> err]

\* set_fees(psbt, fee_rate, payer); deduce_from is the payer output that
\* payer_vouts.choose(rng) draws.  <<Outcome, FeeInfo>>.
SetFees(p, fee_rate, payer, deduce_from, overflow_checks) ==
    LET no_info == FeeInfo(fee_rate, payer, 0, 0, 0, 0, "-")
        Failed(msg) == <<Outcome("Err", p), FeeInfo(fee_rate, payer, 0, 0, 0, 0, msg)>>
        bad_record == \E k \in WithAddress(p) : ~IsSp(p.outputs[k].address[1])
        payer_vouts == IF IsSp(payer) THEN SpPayerVouts(p, SpParse(payer)[1])
                       ELSE IF AddrParse(payer) = None THEN {}
                       ELSE AddrPayerVouts(p, AddrParse(payer)[1])
        no_utxo == \E k \in DOMAIN p.inputs : p.inputs[k].witness_utxo = None
        ins == FoldU64([k \in DOMAIN p.inputs |-> p.inputs[k].witness_utxo[1].value],
                       0, overflow_checks)
        outs == FoldU64([k \in DOMAIN p.unsigned_tx.output |->
                            p.unsigned_tx.output[k].value], 0, overflow_checks)
        diff == SubU64(ins[2], outs[2])
        dust == diff.val
        fake == SignPsbtFake(p)
        vsize == VSize(fake[1])
        fee == MulU32(fee_rate, vsize)
        fee_amt == fee.val
        old_value == p.unsigned_tx.output[deduce_from].value
    IN  IF IsSp(payer) /\ bad_record THEN <<Outcome("Abort", p), no_info>>
        ELSE IF ~IsSp(payer) /\ AddrParse(payer) = None THEN Failed("Address::from_str")
        ELSE IF payer_vouts = {} THEN Failed("Payer is not part of this transaction")
        ELSE IF no_utxo THEN Failed("iter_funding_utxos")
        ELSE IF ins[1] # "Ok" THEN <<Outcome(ins[1], p), no_info>>
        ELSE IF outs[1] # "Ok" THEN <<Outcome(outs[1], p), no_info>>
        ELSE IF diff.ovf /\ overflow_checks THEN <<Outcome("Abort", p), no_info>>
        ELSE IF dust > DUST_THRESHOLD THEN Failed("Missing a change output")
        ELSE IF fake = None THEN <<Outcome("Abort", p), no_info>>
        ELSE IF fee.ovf /\ overflow_checks
             THEN <<Outcome("Abort", p), FeeInfo(fee_rate, payer, dust, vsize, 0, 0, "-")>>
        ELSE IF fee_amt > dust
             THEN IF deduce_from \notin payer_vouts
                  THEN Failed("no payer vout")
                  ELSE IF fee_amt - dust > old_value
                  THEN <<Outcome("Abort", p),
                         FeeInfo(fee_rate, payer, dust, vsize, fee_amt, deduce_from, "-")>>
                  ELSE <<Outcome("Ok", [p EXCEPT !.unsigned_tx.output[deduce_from].value =
                                                    old_value - (fee_amt - dust)]),
                         FeeInfo(fee_rate, payer, dust, vsize, fee_amt, deduce_from, "-")>>
        ELSE <<Outcome("Ok", p), FeeInfo(fee_rate, payer, dust, vsize, fee_amt, 0, "-")>>

-----------------------------------------------------------------------------
(* fill_sp_outputs.                                                        *)

\* A first loop that asked only for the tweak record, not for its length
BadTweak_MissingOnly(i) == i.tweak = None

\* The first loop of fill_sp_outputs rejects an input whose tweak record is
\* missing or is not 32 bytes long.
BadTweak(i) == i.tweak = None \/ i.tweak[1].len # 32

\* sp_addresses: the address of every output that carries an address record,
\* in the order of the outputs, as the string to_string gives.
RECURSIVE SpAddressesFrom(_, _)
SpAddressesFrom(p, k) ==
    IF k > Len(p.outputs) THEN <<>>
    ELSE IF p.outputs[k].address = None THEN SpAddressesFrom(p, k + 1)
    ELSE <<SpParse(p.outputs[k].address[1])[1]>> \o SpAddressesFrom(p, k + 1)

\* The number of j in 1..k-1 with the scan key of addresses[k].
GroupCounter(addresses, k) ==
    Cardinality({j \in 1..(k - 1) : ScanKey(addresses[j]) = ScanKey(addresses[k])})

\* The key silentpayments derives for the k-th address of the list: the
\* addresses of one scan key share the counter of the output keys.
XOnlyKey(addresses, k) == [addr |-> addresses[k], n |-> GroupCounter(addresses, k)]

RECURSIVE KeysOf(_, _, _)
KeysOf(addresses, a, k) ==
    IF k > Len(addresses) THEN <<>>
    ELSE IF addresses[k] = a THEN <<XOnlyKey(addresses, k)>> \o KeysOf(addresses, a, k + 1)
    ELSE KeysOf(addresses, a, k + 1)

\* A generate_recipient_pubkeys that made one key more for every address
GenerateRecipientPubkeys_Spare(addresses) ==
    [a \in Range(addresses) |->
        Append(KeysOf(addresses, a, 1), [addr |-> a, n |-> Len(addresses)])]

\* silentpayments::sending::generate_recipient_pubkeys: the map from each
\* address of the list to the keys derived for it, in order.
GenerateRecipientPubkeys(addresses) ==
    [a \in Range(addresses) |-> KeysOf(addresses, a, 1)]

\* ScriptBuf::new_p2tr_tweaked(output_key)
P2trOf(key) == [type |-> "p2tr", key |-> key]

\* A walk that took the last key that is left instead of the first: C8 tells
\* it from the code.
TakeKey_Last(keys) == <<keys[Len(keys)], SubSeq(keys, 1, Len(keys) - 1)>>

\* Which key of its list the walk hands to a slot: xonlypubkeys.remove(0)
\* takes the first key that is left.
TakeKey(keys) == <<Head(keys), Tail(keys)>>

\* The second loop of fill_sp_outputs, from output k on, with the keys still
\* left for each address.
RECURSIVE FillFrom(_, _, _)
FillFrom(p, keys, k) ==
    IF k > Len(p.outputs) THEN Outcome("Ok", p)
    ELSE IF p.outputs[k].address = None THEN FillFrom(p, keys, k + 1)
    ELSE LET a == SpParse(p.outputs[k].address[1])[1]
         IN  IF a \notin DOMAIN keys THEN Outcome("Err", p)
             ELSE IF keys[a] = <<>> THEN Outcome("Err", p)
             ELSE FillFrom(
                    [p EXCEPT !.unsigned_tx.output[k].script_pubkey =
                                    P2trOf(TakeKey(keys[a])[1])],
                    [keys EXCEPT ![a] = TakeKey(keys[a])[2]],
                    k + 1)

\* fill_sp_outputs(psbt)
FillSpOutputs(p) ==
    IF spend_key = "Public" THEN Outcome("Err", p)
    ELSE IF \E k \in DOMAIN p.inputs : BadTweak(p.inputs[k]) THEN Outcome("Err", p)
    ELSE IF p.inputs = <<>> THEN Outcome("Err", p)  \* calculate_partial_secret
    ELSE IF \E k \in WithAddress(p) : ~IsSp(p.outputs[k].address[1]) THEN Outcome("Err", p)
    ELSE FillFrom(p, GenerateRecipientPubkeys(SpAddressesFrom(p, 1)), 1)

-----------------------------------------------------------------------------
(* sign_psbt.                                                              *)

\* PsbtSighashType::taproot_hash_ty, or Default without a sighash type:
\* Some(type), or None for a type taproot does not have.
TaprootHashTy(sighash_type) ==
    IF sighash_type = None THEN Some("Default")
    ELSE IF sighash_type[1] \in {"Default", "All"} THEN Some(sighash_type[1])
    ELSE None

\* The loop of sign_psbt from input k on, on the clone signed_psbt; p is the
\* PSBT handed in.  The sighash needs the witness_utxo of every input.
RECURSIVE SignFrom(_, _, _)
SignFrom(p, signed, k) ==
    IF k > Len(p.inputs) THEN Outcome("Ok", signed)
    ELSE LET input == p.inputs[k]
             hash_ty == TaprootHashTy(input.sighash_type)
         IN  IF hash_ty = None THEN Outcome("Err", p)
             ELSE IF \E j \in DOMAIN p.inputs : p.inputs[j].witness_utxo = None
             THEN Outcome("Err", p)
             ELSE IF input.tweak = None THEN Outcome("Abort", p)
             ELSE IF input.tweak[1].len # 32 THEN Outcome("Abort", p)
             ELSE SignFrom(p,
                    [signed EXCEPT !.inputs[k].tap_key_sig =
                                        Some(Signature("schnorr", hash_ty[1]))],
                    k + 1)

\* A sign_psbt without the check of the spend key: C9 tells it from the code.
SignPsbt_NoSpendKeyCheck(p) == SignFrom(p, p, 1)

\* sign_psbt(psbt)
SignPsbt(p) ==
    IF spend_key = "Public" THEN Outcome("Err", p)
    ELSE SignFrom(p, p, 1)

-----------------------------------------------------------------------------
(* The PSBT operations as actions: SpecPsbt.                               *)

\* The record of a call on a PSBT.
PRet(op, res, arg) == [Ret(op, res = "Ok", arg) EXCEPT !.abort = (res = "Abort")]

\* The wallet the PSBT operations run on: one that has found its outputs.
InitPsbt ==
    /\ owned = [o \in OutPoints |-> OwnedOutput(o, Unspent)]
    /\ birthday = 0
    /\ last_scan = MaxHeight
    /\ spend_key \in {"Secret", "Public"}
    /\ is_testnet = FALSE
    /\ psbt = None
    /\ ret = Ret("new", TRUE, "-")
    /\ disk = None
    /\ nakamoto = 0

SeqsUpTo(S, n) == UNION {[1..k -> S] : k \in 0..n}

\* The inputs a caller may hand to create_new_psbt: outputs of the wallet,
\* or one whose tweak is not the hex of 32 bytes.
InputLists ==
    SeqsUpTo({OwnedOutput(o, Unspent) : o \in OutPoints}, MaxInputs)
        \cup {<<[OwnedOutput("o1", Unspent) EXCEPT !.tweak = "tweak31"]>>}

\* The recipients a caller may name: none; one or several outputs for one
\* silent-payment address; two silent-payment addresses of one receiver; an
\* address named twice, and named in another spelling; the wallet's own change
\* address; normal addresses; addresses of the other network and a string
\* that is no address.
RecipientLists ==
    {<<>>,
     <<Recipient("sp1x", 400, 1)>>,
     <<Recipient("sp1x", 400, 2)>>,
     <<Recipient("sp1x", 400, 2), Recipient("sp1xl", 600, 1)>>,
     <<Recipient("sp1x", 400, 1), Recipient("SP1X", 400, 1)>>,
     <<Recipient("sp1xl", 600, 1), Recipient("sp1x", 400, 1), Recipient("sp1xl", 600, 1)>>,
     <<Recipient("sp1change", 400, 1)>>,
     <<Recipient("bc1q", 400, 1)>>,
     <<Recipient("bc1q", 1200, 2)>>,
     <<Recipient("sp1x", 600, 1), Recipient("bc1q", 400, 1)>>,
     <<Recipient("tb1q", 400, 1)>>,
     <<Recipient("tsp1z", 400, 1)>>,
     <<Recipient("sp1x", 400, 1), Recipient("garbage", 400, 1)>>}

\* A caller makes one call of create_new_psbt and takes the PSBT it returns
\* through the other operations.
create_new_psbt(inputs, recipients, overflow_checks) ==
    /\ psbt = None
    /\ ret.op # "create_new_psbt"
    /\ psbt' = CreateNewPsbt(inputs, recipients, overflow_checks).psbt
    /\ ret' = PRet("create_new_psbt",
                   CreateNewPsbt(inputs, recipients, overflow_checks).res,
                   [inputs |-> inputs, recipients |-> recipients])
    /\ UNCHANGED <<disk, nakamoto, owned, last_scan, birthday, spend_key, is_testnet>>

\* The fee rates a caller may ask for; at 7 sat/vB the fee of the smallest
\* transaction leaves the model's u32.
FeeRates == {1, 7}

Payers == {"sp1x", "SP1X", "bc1q", "garbage"}

set_fees(fee_rate, payer, deduce_from, overflow_checks) ==
    /\ psbt # None
    /\ LET r == SetFees(psbt[1], fee_rate, payer, deduce_from, overflow_checks)
       IN  /\ psbt' = Some(r[1].psbt)
           /\ ret' = PRet("set_fees", r[1].res, r[2])
    /\ UNCHANGED <<disk, nakamoto, owned, last_scan, birthday, spend_key, is_testnet>>

fill_sp_outputs ==
    /\ psbt # None
    /\ psbt' = Some(FillSpOutputs(psbt[1]).psbt)
    /\ ret' = PRet("fill_sp_outputs", FillSpOutputs(psbt[1]).res, "-")
    /\ UNCHANGED <<disk, nakamoto, owned, last_scan, birthday, spend_key, is_testnet>>

sign_psbt ==
    /\ psbt # None
    /\ psbt' = Some(SignPsbt(psbt[1]).psbt)
    /\ ret' = PRet("sign_psbt", SignPsbt(psbt[1]).res, "-")
    /\ UNCHANGED <<disk, nakamoto, owned, last_scan, birthday, spend_key, is_testnet>>

finalize_psbt ==
    /\ psbt # None
    /\ psbt' = Some(FinalizePsbt(psbt[1]).psbt)
    /\ ret' = PRet("finalize_psbt", FinalizePsbt(psbt[1]).res, "-")
    /\ UNCHANGED <<disk, nakamoto, owned, last_scan, birthday, spend_key, is_testnet>>

get_receiving_address ==
    /\ ret' = Ret("get_receiving_address", TRUE, ReceivingAddress)
    /\ UNCHANGED <<disk, nakamoto, owned, last_scan, birthday, spend_key, is_testnet, psbt>>

list_outpoints ==
    /\ ret' = Ret("list_outpoints", TRUE, {owned[o] : o \in DOMAIN owned})
    /\ UNCHANGED <<disk, nakamoto, owned, last_scan, birthday, spend_key, is_testnet, psbt>>

\* The payer outputs set_fees may draw from: those of the payer, or 0 when the
\* payer has none (set_fees draws nothing then).
DrawFrom(held, payer) ==
    LET p == held[1]
        vouts == IF IsSp(payer) THEN SpPayerVouts(p, SpParse(payer)[1])
                 ELSE IF AddrParse(payer) = None THEN {}
                 ELSE AddrPayerVouts(p, AddrParse(payer)[1])
    IN  IF held = None THEN {0} ELSE IF vouts = {} THEN {0} ELSE vouts

NextPsbt ==
    \/ \E inputs \in InputLists, recipients \in RecipientLists,
          overflow_checks \in BOOLEAN :
            create_new_psbt(inputs, recipients, overflow_checks)
    \/ \E fee_rate \in FeeRates, payer \in Payers, overflow_checks \in BOOLEAN :
        \E deduce_from \in DrawFrom(psbt, payer) :
            set_fees(fee_rate, payer, deduce_from, overflow_checks)
    \/ fill_sp_outputs
    \/ sign_psbt
    \/ get_receiving_address
    \/ list_outpoints

SpecPsbt == InitPsbt /\ [][NextPsbt]_vars

-----------------------------------------------------------------------------
(* Properties of create_new_psbt.                                          *)

\* The call of create_new_psbt that has just returned a PSBT.
Created == ret.op = "create_new_psbt" /\ ret.ok

\* C5: in the PSBT create_new_psbt returns, every input carries the
\* witness_utxo made of that input's amount and script and a tweak record of 32
\* bytes; the output of a recipient carries an address record exactly when the
\* recipient's address is a silent-payment address, and the change output
\* carries the record of the wallet's change address.
C5_CreatedPsbtRecords ==
    Created =>
        /\ psbt # None
        /\ LET p == psbt[1]
               inputs == ret.arg.inputs
               recipients == ret.arg.recipients
           IN  /\ Len(p.inputs) = Len(inputs)
               /\ Len(p.unsigned_tx.input) = Len(inputs)
               /\ \A k \in DOMAIN inputs :
                    /\ p.inputs[k].witness_utxo =
                            Some(TxOut(inputs[k].amount, inputs[k].script))
                    /\ p.inputs[k].tweak # None
                    /\ p.inputs[k].tweak[1].len = 32
               /\ Len(p.outputs) = Len(p.unsigned_tx.output)
               /\ Len(p.outputs) >= Len(recipients)
               /\ \A k \in DOMAIN recipients :
                    (p.outputs[k].address # None) <=> IsSp(recipients[k].address)
               /\ \A k \in DOMAIN p.outputs :
                    k > Len(recipients) => p.outputs[k].address = Some(ChangeAddress)

\* A PSBT made from two inputs for a silent-payment recipient and a normal
\* recipient, with a change output.
C5_Witness ==
    /\ Created
    /\ Len(ret.arg.inputs) = 2
    /\ \E k \in DOMAIN ret.arg.recipients : IsSp(ret.arg.recipients[k].address)
    /\ \E k \in DOMAIN ret.arg.recipients : ~IsSp(ret.arg.recipients[k].address)
    /\ Len(psbt[1].outputs) > Len(ret.arg.recipients)

\* The exact sum of the amounts of the inputs, and of the recipients.
SumAmount(seq) == SumSeq([k \in DOMAIN seq |-> seq[k].amount])

SumNbOutputs(recipients) ==
    SumSeq([k \in DOMAIN recipients |-> recipients[k].nb_outputs])

\* C6: the transaction create_new_psbt returns has nb_outputs outputs for
\* each recipient, sum(nb_outputs) in all, and one more when the inputs exceed
\* the recipients' amounts by more than DUST_THRESHOLD (the change output).
C6_NbOutputsSlots ==
    (/\ Created
     /\ \A k \in DOMAIN ret.arg.recipients :
            ~IsSp(ret.arg.recipients[k].address) => ret.arg.recipients[k].nb_outputs = 1
     /\ SumAmount(ret.arg.inputs) >= SumAmount(ret.arg.recipients))
    => Len(psbt[1].unsigned_tx.output) =
            SumNbOutputs(ret.arg.recipients)
            + (IF SumAmount(ret.arg.inputs) - SumAmount(ret.arg.recipients) > DUST_THRESHOLD
               THEN 1 ELSE 0)

-----------------------------------------------------------------------------
(* Properties of set_fees, fill_sp_outputs and the watch-only wallet.      *)

\* The exact sum of the inputs' amounts minus that of the outputs' amounts.
FeePaid(p) ==
    SumSeq([k \in DOMAIN p.inputs |-> p.inputs[k].witness_utxo[1].value])
        - SumSeq([k \in DOMAIN p.unsigned_tx.output |-> p.unsigned_tx.output[k].value])

\* C7: after set_fees has succeeded in the branch fee_amt > dust, the
\* inputs' amounts exceed the outputs' amounts by exactly fee_rate times the
\* virtual size of the fake-signed transaction.
C7_FeeIsRateTimesVsize ==
    (ret.op = "set_fees" /\ ret.ok /\ ret.arg.fee_amt > ret.arg.dust)
        => FeePaid(psbt[1]) = ret.arg.fee_rate * ret.arg.vsize

\* The address an output's record names.
AddressAt(p, k) == SpParse(p.outputs[k].address[1])[1]

\* The position of output k among the outputs that name its address.
SlotOf(p, k) ==
    Cardinality({j \in WithAddress(p) : j <= k /\ AddressAt(p, j) = AddressAt(p, k)})

\* C8: after fill_sp_outputs has succeeded, the j-th output (in output order)
\* that names a silent-payment address holds the j-th key generated for that
\* address, and no two outputs hold the same key.
C8_KeysInSlotOrder ==
    (ret.op = "fill_sp_outputs" /\ ret.ok) =>
        LET p == psbt[1]
            keys == GenerateRecipientPubkeys(SpAddressesFrom(p, 1))
        IN  /\ \A k \in WithAddress(p) :
                /\ SlotOf(p, k) <= Len(keys[AddressAt(p, k)])
                /\ p.unsigned_tx.output[k].script_pubkey =
                        P2trOf(keys[AddressAt(p, k)][SlotOf(p, k)])
                /\ p.unsigned_tx.output[k].script_pubkey.key.addr = AddressAt(p, k)
            /\ \A k, l \in WithAddress(p) :
                k # l => p.unsigned_tx.output[k].script_pubkey #
                            p.unsigned_tx.output[l].script_pubkey

\* fill_sp_outputs has succeeded on a PSBT in which two outputs name one
\* address and a third names another.
C8_Witness ==
    /\ ret.op = "fill_sp_outputs"
    /\ ret.ok
    /\ \E k, l, m \in WithAddress(psbt[1]) :
        /\ k < l
        /\ AddressAt(psbt[1], k) = AddressAt(psbt[1], l)
        /\ AddressAt(psbt[1], m) # AddressAt(psbt[1], k)

\* C9: on a wallet whose spend key is SpendKey::Public, fill_sp_outputs and
\* sign_psbt return an error (they do not abort) and leave the PSBT as it was,
\* without a signature; get_receiving_address and list_outpoints succeed and
\* give the receiving address and the owned outputs.
C9_WatchOnly ==
    [][spend_key = "Public" =>
        /\ ret'.op \in {"fill_sp_outputs", "sign_psbt"} =>
            /\ ~ret'.ok
            /\ ~ret'.abort
            /\ psbt' = psbt
            /\ \A k \in DOMAIN psbt'[1].inputs : psbt'[1].inputs[k].tap_key_sig = None
        /\ ret'.op = "get_receiving_address" =>
            ret'.ok /\ ret'.arg = ReceivingAddress
        /\ ret'.op = "list_outpoints" =>
            ret'.ok /\ ret'.arg = {owned[o] : o \in DOMAIN owned}]_vars

\* A watch-only wallet has been asked to sign a PSBT it made.
C9_Witness ==
    /\ spend_key = "Public"
    /\ psbt # None
    /\ Len(psbt[1].inputs) > 0
    /\ ret.op = "sign_psbt"

-----------------------------------------------------------------------------
(* Signing and finalizing a PSBT the caller hands in: SpecSign.            *)

\* The inputs of a PSBT that api::sign_psbt parses from the caller's string:
\* with or without the tweak record, without a sighash type, with one of
\* taproot (All) or one taproot does not have, and with or without the fields
\* of another signer.
ExternalInputs ==
    {[DefaultInput EXCEPT
        !.witness_utxo = Some(TxOut(AmountOf("o1"), Script("p2tr", "o1", 0))),
        !.tweak = tweak,
        !.sighash_type = sighash_type,
        !.partial_sigs = IF other_signer THEN {"partial_sig"} ELSE {},
        !.redeem_script = IF other_signer THEN Some("redeem_script") ELSE None,
        !.witness_script = IF other_signer THEN Some("witness_script") ELSE None,
        !.bip32_derivation = IF other_signer THEN {"derivation"} ELSE {}] :
            tweak \in {Some(Bytes(32, "tweak32")), None},
            sighash_type \in {None, Some("All"), Some("Unknown")},
            other_signer \in BOOLEAN}

\* A PSBT of these inputs that pays one output.
ExternalPsbt(ins) ==
    [unsigned_tx |->
        [input |-> [k \in DOMAIN ins |-> TxIn(IF k % 2 = 1 THEN "o1" ELSE "o2")],
         output |-> <<TxOut(AmountOf("o1") - 100, placeholder_spk)>>],
     inputs |-> ins,
     outputs |-> <<DefaultOutput>>]

ExternalPsbts == {ExternalPsbt(ins) : ins \in SeqsUpTo(ExternalInputs, MaxInputs) \ {<<>>}}

InitSign ==
    /\ owned = [o \in OutPoints |-> OwnedOutput(o, Unspent)]
    /\ birthday = 0
    /\ last_scan = MaxHeight
    /\ spend_key = "Secret"
    /\ is_testnet = FALSE
    /\ psbt \in {Some(p) : p \in ExternalPsbts}
    /\ ret = Ret("new", TRUE, "-")
    /\ disk = None
    /\ nakamoto = 0

NextSign ==
    \/ sign_psbt
    \/ finalize_psbt

SpecSign == InitSign /\ [][NextSign]_vars

\* C10: a finalize_psbt that succeeds leaves every input with the witness
\* made of the one item to_vec gives for the tap_key_sig the input had, and
\* without tap_key_sig, partial_sigs, sighash_type, redeem_script,
\* witness_script and bip32_derivation.
C10_FinalizedInputs ==
    [][(ret'.op = "finalize_psbt" /\ ret'.ok) =>
        /\ Len(psbt'[1].inputs) = Len(psbt[1].inputs)
        /\ \A k \in DOMAIN psbt[1].inputs :
            /\ psbt[1].inputs[k].tap_key_sig # None
            /\ psbt'[1].inputs[k].final_script_witness =
                    Some(<<SigToVec(psbt[1].inputs[k].tap_key_sig[1])>>)
            /\ psbt'[1].inputs[k].tap_key_sig = None
            /\ psbt'[1].inputs[k].partial_sigs = {}
            /\ psbt'[1].inputs[k].sighash_type = None
            /\ psbt'[1].inputs[k].redeem_script = None
            /\ psbt'[1].inputs[k].witness_script = None
            /\ psbt'[1].inputs[k].bip32_derivation = {}]_vars

\* A PSBT has been finalized whose input had a sighash type and the fields of
\* another signer: its witness is the signature of 65 bytes.
C10_Witness ==
    /\ ret.op = "finalize_psbt"
    /\ ret.ok
    /\ \E k \in DOMAIN psbt[1].inputs :
        psbt[1].inputs[k].final_script_witness = Some(<<Bytes(65, "schnorr")>>)

-----------------------------------------------------------------------------
(* Aborts.                                                                 *)

\* C11: no operation aborts, except sign_psbt on a PSBT with an input that
\* has no tweak record: every other failure is a returned error.
C11_OnlySignAborts ==
    ret.abort =>
        /\ ret.op = "sign_psbt"
        /\ \E k \in DOMAIN psbt[1].inputs : psbt[1].inputs[k].tweak = None

-----------------------------------------------------------------------------
(* last_scan.                                                              *)

\* C12: a fresh wallet has last_scan = max(0, birthday - 1), and every
\* operation but reset_from_blockheight leaves last_scan at or above the value
\* it had.
C12_LastScanNeverLowered ==
    /\ last_scan = (IF birthday - 1 > 0 THEN birthday - 1 ELSE 0)
    /\ [][ret'.op # "reset_from_blockheight" => last_scan' >= last_scan]_vars

-----------------------------------------------------------------------------
(* Keys.                                                                   *)

\* The seedphrases that are valid mnemonics; every other string fails
\* Mnemonic::parse.
Mnemonics == {"m1", "m2"}

MnemonicParse(seedphrase) == IF seedphrase \in Mnemonics THEN Some(seedphrase) ELSE None

\* Mnemonic::to_seed(passphrase)
ToSeed(mnemonic, passphrase) == [mnemonic |-> mnemonic, passphrase |-> passphrase]

\* Xpriv::new_master(network, seed)
NewMaster(network, seed) == [network |-> network, seed |-> seed]

\* A secret key: the private key xprv.derive_priv gives at a path, or (path
\* "-") the key SecretKey::from_str reads.
SecretKey(seed, path) == [seed |-> seed, path |-> path]

DerivePriv(xprv, path) == SecretKey(xprv.seed, path)

\* derive_keys_from_xprv with the paths of Network::Bitcoin for every network
derive_keys_from_xprv_MainnetPaths(xprv) ==
    <<DerivePriv(xprv, "m/352h/0h/0h/1h/0"), DerivePriv(xprv, "m/352h/0h/0h/0h/0")>>

\* derive_keys_from_xprv: <<scan_privkey, spend_privkey>>
derive_keys_from_xprv(xprv) ==
    IF xprv.network = "Bitcoin"
    THEN <<DerivePriv(xprv, "m/352h/0h/0h/1h/0"), DerivePriv(xprv, "m/352h/0h/0h/0h/0")>>
    ELSE <<DerivePriv(xprv, "m/352h/1h/0h/1h/0"), DerivePriv(xprv, "m/352h/1h/0h/0h/0")>>

\* derive_keys_from_mnemonic: Some(<<mnemonic, scan_privkey, spend_privkey>>)
\* or None.  `generated` is the mnemonic Mnemonic::generate(12) draws for an
\* empty seedphrase.
DeriveKeysFromMnemonic(seedphrase, passphrase, testnet, generated) ==
    LET mnemonic == IF seedphrase = "" THEN Some(generated) ELSE MnemonicParse(seedphrase)
        network == IF testnet THEN "Testnet" ELSE "Bitcoin"
        keys == derive_keys_from_xprv(NewMaster(network, ToSeed(mnemonic[1], passphrase)))
    IN  IF mnemonic = None THEN None
        ELSE Some(<<mnemonic[1], keys[1], keys[2]>>)

\* SecretKey::from_str / PublicKey::from_str of a hex string
SecretKeyFromStr(hex) == IF hex \in {"sk1", "sk2"} THEN Some(SecretKey(hex, "-")) ELSE None

PublicKeyFromStr(hex) == IF hex = "pk2" THEN Some(SecretKey(hex, "-")) ELSE None

-----------------------------------------------------------------------------
(* The calls of api.rs on the stored wallet and the nakamoto client:       *)
(* SpecApi.                                                                *)

\* At most MaxClients nakamoto clients are left running.
MaxClients == 2

\* SpClient::new: the wallet as save_to_disk serializes it.
SpClientNew(scan_sk, spend, mnemonic, b, testnet) ==
    [scan_sk |-> scan_sk, spend_key |-> spend, mnemonic |-> mnemonic,
     birthday |-> b, is_testnet |-> testnet,
     last_scan |-> NewLastScan(b), owned |-> <<>>]

\* SpendKey::Secret(key) / SpendKey::Public(key)
SpendKey(variant, key) == [variant |-> variant, key |-> key]

\* enum WalletType
WalletType(kind, a, b) == [kind |-> kind, a |-> a, b |-> b]

WalletTypes ==
    {WalletType("New", "-", "-"),
     WalletType("Mnemonic", "m1", "-"),
     WalletType("Mnemonic", "not a mnemonic", "-"),
     WalletType("PrivateKeys", "sk1", "sk2"),
     WalletType("PrivateKeys", "sk1", "zz"),
     WalletType("ReadOnly", "sk1", "pk2")}

\* SpClient::try_init_from_disk: Some(the stored wallet) or None (no record,
\* or the FileWriter cannot read it: read_ok is FALSE).
TryInitFromDisk(read_ok) == IF disk # None /\ read_ok THEN disk ELSE None

\* wallet_exists
wallet_exists(read_ok) == TryInitFromDisk(read_ok) # None

\* The arms of the match of setup: Some(<<the wallet, the string returned>>),
\* or None when a key cannot be made.
SetupWallet(wallet_type, b, testnet, generated) ==
    CASE wallet_type.kind = "New" ->
            LET k == DeriveKeysFromMnemonic("", "", testnet, generated)
            IN  Some(<<SpClientNew(k[1][2], SpendKey("Secret", k[1][3]), Some(k[1][1]),
                                   b, testnet), k[1][1]>>)
      [] wallet_type.kind = "Mnemonic" ->
            LET k == DeriveKeysFromMnemonic(wallet_type.a, "", testnet, generated)
            IN  IF k = None THEN None
                ELSE Some(<<SpClientNew(k[1][2], SpendKey("Secret", k[1][3]),
                                        Some(wallet_type.a), b, testnet), "">>)
      [] wallet_type.kind = "PrivateKeys" ->
            LET scan == SecretKeyFromStr(wallet_type.a)
                spend == SecretKeyFromStr(wallet_type.b)
            IN  IF scan = None \/ spend = None THEN None
                ELSE Some(<<SpClientNew(scan[1], SpendKey("Secret", spend[1]), None,
                                        b, testnet), "">>)
      [] wallet_type.kind = "ReadOnly" ->
            LET scan == SecretKeyFromStr(wallet_type.a)
                spend == PublicKeyFromStr(wallet_type.b)
            IN  IF scan = None \/ spend = None THEN None
                ELSE Some(<<SpClientNew(scan[1], SpendKey("Public", spend[1]), None,
                                        b, testnet), "">>)

\* The wallet is not in memory between the calls of api.rs: every call reads
\* it from the disk.
InitApi ==
    /\ owned = <<>>
    /\ birthday = 0
    /\ last_scan = 0
    /\ spend_key = "Secret"
    /\ is_testnet = FALSE
    /\ psbt = None
    /\ ret = Ret("new", TRUE, "-")
    /\ disk = None
    /\ nakamoto = 0

\* The mnemonics Mnemonic::generate may draw in setup: it is called for a new
\* wallet only.
Generated(wallet_type) == IF wallet_type.kind = "New" THEN Mnemonics ELSE {"m1"}

\* setup: io_ok is whether the FileWriter can be made and writes the wallet.
setup(wallet_type, b, testnet, generated, read_ok, io_ok) ==
    LET made == SetupWallet(wallet_type, b, testnet, generated)
        arg == wallet_type.kind
    IN  /\ IF wallet_exists(read_ok) THEN
                /\ disk' = disk
                /\ ret' = Ret("setup", FALSE, arg)
           ELSE IF made = None \/ ~io_ok THEN
                /\ disk' = disk
                /\ ret' = Ret("setup", FALSE, arg)
           ELSE /\ disk' = Some(made[1][1])
                /\ ret' = [Ret("setup", TRUE, arg) EXCEPT !.saved = Some(made[1][1])]
        /\ UNCHANGED <<nakamoto, owned, last_scan, birthday, spend_key, is_testnet, psbt>>

change_birthday(b, read_ok, io_ok) ==
    LET sp_client == TryInitFromDisk(read_ok)
        new == [sp_client[1] EXCEPT !.birthday = b]
    IN  /\ IF sp_client = None \/ ~io_ok THEN
                /\ disk' = disk
                /\ ret' = Ret("change_birthday", FALSE, b)
           ELSE /\ disk' = Some(new)
                /\ ret' = [Ret("change_birthday", TRUE, b) EXCEPT !.saved = Some(new)]
        /\ UNCHANGED <<nakamoto, owned, last_scan, birthday, spend_key, is_testnet, psbt>>

\* SpClient::reset_from_blockheight on a wallet read from the disk.
ResetFromBlockheight(sp_client, blockheight) ==
    [sp_client EXCEPT !.owned = ResetOwned(@, blockheight), !.last_scan = blockheight]

reset_wallet(read_ok, io_ok) ==
    LET sp_client == TryInitFromDisk(read_ok)
        new == ResetFromBlockheight(sp_client[1], sp_client[1].birthday)
    IN  /\ IF sp_client = None \/ ~io_ok THEN
                /\ disk' = disk
                /\ ret' = Ret("reset_wallet", FALSE, "-")
           ELSE /\ disk' = Some(new)
                /\ ret' = [Ret("reset_wallet", TRUE, "-") EXCEPT !.saved = Some(new)]
        /\ UNCHANGED <<nakamoto, owned, last_scan, birthday, spend_key, is_testnet, psbt>>

remove_wallet(read_ok, io_ok) ==
    /\ IF TryInitFromDisk(read_ok) = None \/ ~io_ok THEN
            /\ disk' = disk
            /\ ret' = Ret("remove_wallet", FALSE, "-")
       ELSE /\ disk' = None
            /\ ret' = Ret("remove_wallet", TRUE, "-")
    /\ UNCHANGED <<nakamoto, owned, last_scan, birthday, spend_key, is_testnet, psbt>>

\* The outputs of the chain in the order of their blocks, as the scanner
\* hands them to extend_owned.
ChainOutputs == <<<<"o1", OwnedOutput("o1", Unspent)>>, <<"o2", OwnedOutput("o2", Unspent)>>>>

FoundIn(from, to) ==
    SelectSeq(ChainOutputs, LAMBDA pair : HeightOf(pair[1]) > from /\ HeightOf(pair[1]) <= to)

\* nakamotoclient::scan_blocks(handle, 0, sp_client) up to the tip: the
\* outputs of the blocks above last_scan are added and last_scan becomes the
\* tip.
ScanBlocks(sp_client, tip) ==
    IF tip > sp_client.last_scan
    THEN [sp_client EXCEPT !.owned = Extend(@, FoundIn(sp_client.last_scan, tip)),
                           !.last_scan = tip]
    ELSE sp_client

\* What a call did with the nakamoto client.
ClientCalls(started, stopped) == [started |-> started, stopped |-> stopped]

sync_blockchain(start_ok, sync_ok, stop_ok) ==
    /\ IF ~start_ok THEN
            /\ nakamoto' = nakamoto
            /\ ret' = Ret("sync_blockchain", FALSE, ClientCalls(FALSE, FALSE))
       ELSE /\ nakamoto' = (nakamoto + 1) - 1
            /\ ret' = Ret("sync_blockchain", sync_ok /\ stop_ok, ClientCalls(TRUE, TRUE))
    /\ UNCHANGED <<disk, owned, last_scan, birthday, spend_key, is_testnet, psbt>>

scan_to_tip(start_ok, read_ok, tip, scan_ok, stop_ok) ==
    LET sp_client == TryInitFromDisk(read_ok)
        scanned == ScanBlocks(sp_client[1], tip)
    IN  /\ IF ~start_ok THEN
                /\ nakamoto' = nakamoto
                /\ disk' = disk
                /\ ret' = Ret("scan_to_tip", FALSE, ClientCalls(FALSE, FALSE))
           ELSE IF sp_client = None \/ ~scan_ok THEN
                /\ nakamoto' = (nakamoto + 1) - 1
                /\ disk' = disk
                /\ ret' = Ret("scan_to_tip", FALSE, ClientCalls(TRUE, TRUE))
           ELSE /\ nakamoto' = (nakamoto + 1) - 1
                /\ disk' = Some(scanned)
                /\ ret' = [Ret("scan_to_tip", stop_ok, ClientCalls(TRUE, TRUE)) EXCEPT
                                !.saved = Some(scanned)]
        /\ UNCHANGED <<owned, last_scan, birthday, spend_key, is_testnet, psbt>>

\* broadcast_tx: tx_ok is whether the string deserializes to a transaction.
broadcast_tx(start_ok, tx_ok, broadcast_ok, stop_ok, electrum_ok) ==
    /\ nakamoto < MaxClients
    /\ IF ~start_ok THEN
            /\ nakamoto' = nakamoto
            /\ ret' = Ret("broadcast_tx", FALSE, ClientCalls(FALSE, FALSE))
       ELSE IF ~tx_ok THEN
            /\ nakamoto' = nakamoto + 1
            /\ ret' = Ret("broadcast_tx", FALSE, ClientCalls(TRUE, FALSE))
       ELSE /\ nakamoto' = (nakamoto + 1) - 1
            /\ ret' = Ret("broadcast_tx", broadcast_ok /\ stop_ok /\ electrum_ok,
                          ClientCalls(TRUE, TRUE))
    /\ UNCHANGED <<disk, owned, last_scan, birthday, spend_key, is_testnet, psbt>>

Seedphrases == {"", "m1", "m2", "not a mnemonic"}

Passphrases == {"", "pass"}

derive_keys_from_mnemonic(seedphrase, passphrase, testnet, generated) ==
    /\ ret' = Ret("derive_keys_from_mnemonic",
                  DeriveKeysFromMnemonic(seedphrase, passphrase, testnet, generated) # None,
                  [seedphrase |-> seedphrase, passphrase |-> passphrase,
                   is_testnet |-> testnet,
                   keys |-> DeriveKeysFromMnemonic(seedphrase, passphrase, testnet, generated)])
    /\ UNCHANGED <<disk, nakamoto, owned, last_scan, birthday, spend_key, is_testnet, psbt>>

NextApi ==
    \/ \E wallet_type \in WalletTypes, b \in 0..MaxHeight,
          read_ok \in BOOLEAN, io_ok \in BOOLEAN :
            \E generated \in Generated(wallet_type) :
                setup(wallet_type, b, FALSE, generated, read_ok, io_ok)
    \/ \E b \in 0..MaxHeight, read_ok \in BOOLEAN, io_ok \in BOOLEAN :
            change_birthday(b, read_ok, io_ok)
    \/ \E read_ok \in BOOLEAN, io_ok \in BOOLEAN : reset_wallet(read_ok, io_ok)
    \/ \E read_ok \in BOOLEAN, io_ok \in BOOLEAN : remove_wallet(read_ok, io_ok)
    \/ \E start_ok \in BOOLEAN, sync_ok \in BOOLEAN, stop_ok \in BOOLEAN :
            sync_blockchain(start_ok, sync_ok, stop_ok)
    \/ \E start_ok \in BOOLEAN, read_ok \in BOOLEAN, tip \in 0..MaxHeight,
          scan_ok \in BOOLEAN, stop_ok \in BOOLEAN :
            scan_to_tip(start_ok, read_ok, tip, scan_ok, stop_ok)
    \/ \E start_ok \in BOOLEAN, tx_ok \in BOOLEAN, broadcast_ok \in BOOLEAN,
          stop_ok \in BOOLEAN, electrum_ok \in BOOLEAN :
            broadcast_tx(start_ok, tx_ok, broadcast_ok, stop_ok, electrum_ok)

\* The calls of api.rs on a mainnet wallet.
SpecApi == InitApi /\ [][NextApi]_vars

\* Making the keys of a wallet, on either network: SpecKeys.
NextKeys ==
    \/ \E wallet_type \in WalletTypes, b \in 0..MaxHeight, testnet \in BOOLEAN,
          read_ok \in BOOLEAN, io_ok \in BOOLEAN :
            \E generated \in Generated(wallet_type) :
                setup(wallet_type, b, testnet, generated, read_ok, io_ok)
    \/ \E seedphrase \in Seedphrases, passphrase \in Passphrases, testnet \in BOOLEAN,
          generated \in Mnemonics :
            derive_keys_from_mnemonic(seedphrase, passphrase, testnet, generated)

SpecKeys == InitApi /\ [][NextKeys]_vars

-----------------------------------------------------------------------------
(* Properties of the calls of api.rs.                                      *)

\* C13: after reset_wallet has succeeded, the stored wallet's last_scan is
\* its birthday and it owns no outpoint.
C13_ResetWalletOwnsNothing ==
    (ret.op = "reset_wallet" /\ ret.ok) =>
        /\ disk # None
        /\ disk[1].last_scan = disk[1].birthday
        /\ DOMAIN disk[1].owned = {}

\* C14: a call of sync_blockchain, scan_to_tip or broadcast_tx that started
\* the nakamoto client has also stopped it when it returns: the call's record
\* shows a stop for every start, and no call leaves one more client running
\* than it found.
C14_StartedClientIsStopped ==
    [][ret'.op \in {"sync_blockchain", "scan_to_tip", "broadcast_tx"} =>
            /\ ret'.arg.started => ret'.arg.stopped
            /\ nakamoto' = nakamoto]_vars

\* C15: setup on a label whose wallet is already stored fails and leaves the
\* stored wallet as it was.
C15_SetupNeverOverwrites ==
    [][(ret'.op = "setup" /\ disk # None) => (~ret'.ok /\ disk' = disk)]_vars

-----------------------------------------------------------------------------
(* Properties of the key derivation.                                       *)

\* The BIP-352 paths of a network: <<scan, spend>>.
Bip352Paths(testnet) ==
    IF testnet THEN <<"m/352h/1h/0h/1h/0", "m/352h/1h/0h/0h/0">>
    ELSE <<"m/352h/0h/0h/1h/0", "m/352h/0h/0h/0h/0">>

\* C16: for a non-empty seedphrase derive_keys_from_mnemonic fails when the
\* seedphrase is not a valid mnemonic, and otherwise returns the keys that the
\* seedphrase, the passphrase and the network alone determine: the private
\* keys of the seed at the scan and spend paths of the network
\* (m/352'/0'/0'/1'/0 and m/352'/0'/0'/0'/0 on mainnet, m/352'/1'/0'/1'/0 and
\* m/352'/1'/0'/0'/0 otherwise).
C16_DeriveKeys ==
    (ret.op = "derive_keys_from_mnemonic" /\ ret.arg.seedphrase # "") =>
        LET a == ret.arg
            seed == [mnemonic |-> a.seedphrase, passphrase |-> a.passphrase]
            paths == Bip352Paths(a.is_testnet)
        IN  IF a.seedphrase \in Mnemonics
            THEN /\ ret.ok
                 /\ a.keys = Some(<<a.seedphrase,
                                    [seed |-> seed, path |-> paths[1]],
                                    [seed |-> seed, path |-> paths[2]]>>)
            ELSE ~ret.ok /\ a.keys = None

\* Keys were derived from a seedphrase and a passphrase on testnet.
C16_Witness ==
    /\ ret.op = "derive_keys_from_mnemonic"
    /\ ret.ok
    /\ ret.arg.seedphrase = "m2"
    /\ ret.arg.passphrase = "pass"
    /\ ret.arg.is_testnet
    /\ ret.arg.keys[1][2].path = "m/352h/1h/0h/1h/0"

-----------------------------------------------------------------------------
(* Properties of marking and of reset_from_blockheight, checked under Spec. *)

\* C17: mark_transaction_inputs_as_spent on a transaction with an owned
\* Unspent input and an input that is not owned gets through the marking (the
\* spendable amount is sent), marks every owned Unspent input Spent(txid) and
\* leaves the set of owned outpoints as it was.
C17_IgnoresInputsNotOwned ==
    [][( /\ ret'.op = "mark_transaction_inputs_as_spent"
         /\ \E i \in DOMAIN ret'.arg.input :
                /\ ret'.arg.input[i] \in DOMAIN owned
                /\ owned[ret'.arg.input[i]].spend_status = Unspent
         /\ \E i \in DOMAIN ret'.arg.input : ret'.arg.input[i] \notin DOMAIN owned ) =>
            /\ ret'.sent # None
            /\ DOMAIN owned' = DOMAIN owned
            /\ \A i \in DOMAIN ret'.arg.input :
                    ( /\ ret'.arg.input[i] \in DOMAIN owned
                      /\ owned[ret'.arg.input[i]].spend_status = Unspent ) =>
                        owned'[ret'.arg.input[i]].spend_status = Spent(ret'.arg.txid)]_vars

\* C18: the status of an owned output becomes Mined only from Spent.
C18_MinedOnlyFromSpent ==
    [][\A o \in DOMAIN owned \cap DOMAIN owned' :
            ( /\ owned'[o].spend_status.kind = "Mined"
              /\ owned[o].spend_status.kind # "Mined" ) =>
                owned[o].spend_status.kind = "Spent"]_vars

\* The outputs of a map other than o are what they are in the other map.
SameButStatusOf(o, before, after) ==
    /\ DOMAIN after = DOMAIN before
    /\ \A k \in DOMAIN before \ {o} : after[k] = before[k]
    /\ after[o] = [before[o] EXCEPT !.spend_status = after[o].spend_status]

\* C19: mark_outpoint_spent returns Ok exactly when the outpoint is owned and
\* Unspent, mark_outpoint_mined exactly when it is owned and not Mined; a call
\* that returns an error changes nothing, and a call that returns Ok changes
\* the spend_status of that outpoint (to Spent, to Mined) and nothing else.
C19_MarkOutpoint ==
    [][IsMark(ret'.op) =>
        LET o == ret'.arg
            spent == ret'.op = "mark_outpoint_spent"
        IN  /\ ret'.ok <=>
                    /\ o \in DOMAIN owned
                    /\ IF spent THEN owned[o].spend_status = Unspent
                       ELSE owned[o].spend_status.kind # "Mined"
            /\ ~ret'.ok => owned' = owned
            /\ ret'.ok =>
                    /\ SameButStatusOf(o, owned, owned')
                    /\ owned'[o].spend_status.kind = (IF spent THEN "Spent" ELSE "Mined")
            /\ UNCHANGED <<last_scan, birthday, spend_key, is_testnet>>]_vars

\* mark_outpoint_spent has failed on an output that is Spent, next to an
\* output that is Mined.
C19_Witness ==
    /\ ret.op = "mark_outpoint_spent"
    /\ ~ret.ok
    /\ ret.arg \in DOMAIN owned
    /\ owned[ret.arg].spend_status.kind = "Spent"
    /\ \E k \in DOMAIN owned : owned[k].spend_status.kind = "Mined"

\* C20: reset_from_blockheight(h) leaves a wallet that owns exactly the
\* former outputs with blockheight <= h, each as it was (spend_status
\* included), with last_scan = h and with the birthday, the spend key and the
\* network unchanged.
C20_ResetFromBlockheight ==
    [][ret'.op = "reset_from_blockheight" =>
        /\ DOMAIN owned' = {o \in DOMAIN owned : owned[o].blockheight <= ret'.arg}
        /\ \A o \in DOMAIN owned' : owned'[o] = owned[o]
        /\ last_scan' = ret'.arg
        /\ UNCHANGED <<birthday, spend_key, is_testnet>>]_vars

\* A reset to height 1 has kept the output of block 1, which is not Unspent,
\* and the wallet does not own the output of block 2.
C20_Witness ==
    /\ ret.op = "reset_from_blockheight"
    /\ ret.arg = 1
    /\ last_scan = 1
    /\ DOMAIN owned = {"o1"}
    /\ owned["o1"].spend_status.kind # "Unspent"

-----------------------------------------------------------------------------
(* Properties of the change and of the failures of create_new_psbt.        *)

\* The outputs of the transaction from k on are those made for the
\* recipients, one each, in the order given.
RecipientOutputs(p, recipients) ==
    \A k \in DOMAIN recipients :
        p.unsigned_tx.output[k] =
            TxOut(recipients[k].amount, RecipientScript(recipients[k])[1])

\* C21: the transaction create_new_psbt returns ends with a change output of
\* the inputs' amounts less the recipients' amounts, with the placeholder
\* script and the record of the wallet's change address, exactly when that
\* difference exceeds DUST_THRESHOLD; the outputs before it, and all outputs
\* when there is no change, are the recipients' outputs in the order given.
C21_ChangeWhenAboveDust ==
    Created =>
        LET p == psbt[1]
            recipients == ret.arg.recipients
            change_amt == SumAmount(ret.arg.inputs) - SumAmount(recipients)
            last == Len(p.unsigned_tx.output)
        IN  IF change_amt > DUST_THRESHOLD
            THEN /\ last = Len(recipients) + 1
                 /\ p.unsigned_tx.output[last] = TxOut(change_amt, placeholder_spk)
                 /\ p.outputs[last].address = Some(ChangeAddress)
                 /\ RecipientOutputs(p, recipients)
            ELSE /\ last = Len(recipients)
                 /\ RecipientOutputs(p, recipients)

\* C22: a create_new_psbt whose recipients' amounts exceed the inputs'
\* amounts returns an error value: it neither returns a PSBT nor aborts.
C22_InsufficientFunds ==
    ( /\ ret.op = "create_new_psbt"
      /\ SumAmount(ret.arg.recipients) > SumAmount(ret.arg.inputs) ) =>
        /\ ~ret.ok
        /\ ~ret.abort
        /\ psbt = None

\* C23: a create_new_psbt whose inputs exceed the recipients' amounts by an
\* amount above 0 and at most DUST_THRESHOLD fails.
C23_DustChange ==
    ( /\ ret.op = "create_new_psbt"
      /\ SumAmount(ret.arg.inputs) - SumAmount(ret.arg.recipients) > 0
      /\ SumAmount(ret.arg.inputs) - SumAmount(ret.arg.recipients) <= DUST_THRESHOLD ) =>
        ~ret.ok

\* C24: a create_new_psbt with a recipient that is not a silent-payment
\* address and asks for a number of outputs other than 1 fails.
C24_NbOutputsOfNormalAddress ==
    ( /\ ret.op = "create_new_psbt"
      /\ \E k \in DOMAIN ret.arg.recipients :
            /\ ~IsSp(ret.arg.recipients[k].address)
            /\ ret.arg.recipients[k].nb_outputs # 1 ) =>
        ~ret.ok

-----------------------------------------------------------------------------
(* Filling and setting the fees of a PSBT the caller hands in: SpecFill.   *)

\* The inputs of a PSBT that api::fill_sp_outputs and
\* api::add_fee_for_fee_rate parse from the caller's string: with a tweak
\* record of 32 bytes, with one of 31 bytes, or without one.
FillInputs ==
    {[DefaultInput EXCEPT
        !.witness_utxo = Some(TxOut(AmountOf("o1"), Script("p2tr", "o1", 0))),
        !.tweak = tweak] :
            tweak \in {Some(Bytes(32, "tweak32")), Some(Bytes(31, "tweak31")), None}}

\* An output of such a PSBT: the amount, the script and the address record.
FillOutput(value, spk, address) == [value |-> value, script_pubkey |-> spk, address |-> address]

\* The outputs of such a PSBT: one silent-payment output that leaves more
\* than the dust to the fee; a silent-payment and a normal output; an address
\* named twice next to a labelled address of the same receiver; an address
\* record that does not parse; a record in the upper-case spelling; and
\* outputs that exceed one input.
FillOutputLists ==
    {<<FillOutput(400, placeholder_spk, Some("sp1x"))>>,
     <<FillOutput(600, placeholder_spk, Some("sp1x")),
       FillOutput(400, AddrScript("bc1q"), None)>>,
     <<FillOutput(400, placeholder_spk, Some("sp1x")),
       FillOutput(300, placeholder_spk, Some("sp1x")),
       FillOutput(300, placeholder_spk, Some("sp1xl"))>>,
     <<FillOutput(500, placeholder_spk, Some("garbage")),
       FillOutput(500, AddrScript("bc1q"), None)>>,
     <<FillOutput(1000, placeholder_spk, Some("SP1X"))>>,
     <<FillOutput(1200, AddrScript("bc1q"), None)>>}

FillPsbt(ins, outs) ==
    [unsigned_tx |->
        [input |-> [k \in DOMAIN ins |-> TxIn(IF k % 2 = 1 THEN "o1" ELSE "o2")],
         output |-> [k \in DOMAIN outs |-> TxOut(outs[k].value, outs[k].script_pubkey)]],
     inputs |-> ins,
     outputs |-> [k \in DOMAIN outs |-> [DefaultOutput EXCEPT !.address = outs[k].address]]]

FillPsbts ==
    {FillPsbt(ins, outs) : ins \in SeqsUpTo(FillInputs, MaxInputs), outs \in FillOutputLists}

InitFill ==
    /\ owned = [o \in OutPoints |-> OwnedOutput(o, Unspent)]
    /\ birthday = 0
    /\ last_scan = MaxHeight
    /\ spend_key = "Secret"
    /\ is_testnet = FALSE
    /\ psbt \in {Some(p) : p \in FillPsbts}
    /\ ret = Ret("new", TRUE, "-")
    /\ disk = None
    /\ nakamoto = 0

NextFill ==
    \/ \E fee_rate \in FeeRates, payer \in Payers, overflow_checks \in BOOLEAN :
        \E deduce_from \in DrawFrom(psbt, payer) :
            set_fees(fee_rate, payer, deduce_from, overflow_checks)
    \/ fill_sp_outputs

SpecFill == InitFill /\ [][NextFill]_vars

\* The keys the second loop of fill_sp_outputs leaves in
\* sp_address2xonlypubkeys, walking from output k on (the lists the
\* debug_assert at the end looks at).
RECURSIVE KeysLeftFrom(_, _, _)
KeysLeftFrom(p, keys, k) ==
    IF k > Len(p.outputs) THEN keys
    ELSE IF p.outputs[k].address = None THEN KeysLeftFrom(p, keys, k + 1)
    ELSE LET a == SpParse(p.outputs[k].address[1])[1]
         IN  IF a \notin DOMAIN keys THEN keys
             ELSE IF keys[a] = <<>> THEN keys
             ELSE KeysLeftFrom(p, [keys EXCEPT ![a] = TakeKey(keys[a])[2]], k + 1)

KeysLeft(p) == KeysLeftFrom(p, GenerateRecipientPubkeys(SpAddressesFrom(p, 1)), 1)

-----------------------------------------------------------------------------
(* Properties of fill_sp_outputs on any PSBT.                              *)

\* C25: fill_sp_outputs returns an error when an input of the PSBT has no
\* tweak record or one that is not 32 bytes long, and a fill_sp_outputs that
\* returns an error leaves the PSBT as it was.
C25_FillRejectsAndKeeps ==
    [][ret'.op = "fill_sp_outputs" =>
        /\ (\E k \in DOMAIN psbt[1].inputs :
                \/ psbt[1].inputs[k].tweak = None
                \/ psbt[1].inputs[k].tweak[1].len # 32) => (~ret'.ok /\ ~ret'.abort)
        /\ ~ret'.ok => psbt' = psbt]_vars

\* fill_sp_outputs has returned an error on a PSBT with an input whose tweak
\* record is 31 bytes long; its silent-payment output still has the
\* placeholder script.
C25_Witness ==
    /\ ret.op = "fill_sp_outputs"
    /\ ~ret.ok
    /\ \E k \in DOMAIN psbt[1].inputs :
        psbt[1].inputs[k].tweak # None /\ psbt[1].inputs[k].tweak[1].len = 31
    /\ \A k \in DOMAIN psbt[1].inputs : psbt[1].inputs[k].tweak # None
    /\ \E k \in WithAddress(psbt[1]) :
        /\ IsSp(psbt[1].outputs[k].address[1])
        /\ psbt[1].unsigned_tx.output[k].script_pubkey = placeholder_spk

\* C26: a fill_sp_outputs that succeeds has set the script of every output
\* that carries an address record to a key derived for that address (none
\* keeps the placeholder), has left no key in the lists of the addresses, and
\* has left the other scripts, the amounts, the records and the inputs as
\* they were.
C26_FillFrame ==
    [][(ret'.op = "fill_sp_outputs" /\ ret'.ok) =>
        LET p == psbt[1]
            q == psbt'[1]
        IN  /\ \A k \in WithAddress(p) :
                /\ q.unsigned_tx.output[k].script_pubkey # placeholder_spk
                /\ \E n \in 0..Len(p.outputs) :
                    q.unsigned_tx.output[k].script_pubkey =
                        P2trOf([addr |-> SpParse(p.outputs[k].address[1])[1], n |-> n])
            /\ \A a \in DOMAIN KeysLeft(p) : KeysLeft(p)[a] = <<>>
            /\ \A k \in DOMAIN p.outputs \ WithAddress(p) :
                q.unsigned_tx.output[k] = p.unsigned_tx.output[k]
            /\ Len(q.unsigned_tx.output) = Len(p.unsigned_tx.output)
            /\ \A k \in DOMAIN p.unsigned_tx.output :
                q.unsigned_tx.output[k].value = p.unsigned_tx.output[k].value
            /\ q.unsigned_tx.input = p.unsigned_tx.input
            /\ q.inputs = p.inputs
            /\ q.outputs = p.outputs]_vars

\* fill_sp_outputs has succeeded on a PSBT with an output that carries an
\* address record, now holding a derived key, and an output without one.
C26_Witness ==
    /\ ret.op = "fill_sp_outputs"
    /\ ret.ok
    /\ \E k \in WithAddress(psbt[1]) :
        psbt[1].unsigned_tx.output[k].script_pubkey = P2trOf([addr |-> "sp1x", n |-> 0])
    /\ \E k \in DOMAIN psbt[1].outputs :
        /\ psbt[1].outputs[k].address = None
        /\ psbt[1].unsigned_tx.output[k].script_pubkey = AddrScript("bc1q")

-----------------------------------------------------------------------------
(* Properties of set_fees on any PSBT.                                     *)

\* The outputs of the payer: those whose address record equals a
\* silent-payment payer, those whose script is that of a normal address.
PayerOutputs(p, payer) ==
    IF IsSp(payer)
    THEN {k \in WithAddress(p) : SpParse(p.outputs[k].address[1]) = SpParse(payer)}
    ELSE {k \in DOMAIN p.unsigned_tx.output :
            p.unsigned_tx.output[k].script_pubkey = AddrScript(payer)}

IsAddress(payer) == IsSp(payer) \/ payer \in NormalAddresses

\* C27: set_fees with a payer that is a silent-payment address or a normal
\* address returns the error "Payer is not part of this transaction" exactly
\* when no output is the payer's, and it leaves the PSBT as it was then.
C27_PayerNotInTx ==
    [][(ret'.op = "set_fees" /\ IsAddress(ret'.arg.payer)) =>
        /\ (~ret'.ok /\ ~ret'.abort
                /\ ret'.arg.err = "Payer is not part of this transaction")
            <=> PayerOutputs(psbt[1], ret'.arg.payer) = {}
        /\ PayerOutputs(psbt[1], ret'.arg.payer) = {} => psbt' = psbt]_vars

\* C28: set_fees with a payer that has an output returns the error "Missing
\* a change output" when the inputs' amounts exceed the outputs' amounts by
\* more than DUST_THRESHOLD, returns an error (it does not abort) when the
\* outputs' amounts exceed the inputs' amounts, and leaves the PSBT as it was
\* in both cases.
C28_MissingChange ==
    [][( /\ ret'.op = "set_fees"
         /\ IsAddress(ret'.arg.payer)
         /\ PayerOutputs(psbt[1], ret'.arg.payer) # {}
         /\ \A k \in WithAddress(psbt[1]) : IsSp(psbt[1].outputs[k].address[1]) ) =>
        /\ FeePaid(psbt[1]) > DUST_THRESHOLD =>
                /\ ~ret'.ok /\ ~ret'.abort
                /\ ret'.arg.err = "Missing a change output"
                /\ psbt' = psbt
        /\ FeePaid(psbt[1]) < 0 =>
                /\ ~ret'.ok /\ ~ret'.abort
                /\ psbt' = psbt]_vars

\* C29: set_fees leaves the inputs, the records, the scripts and the inputs
\* of the transaction as they were (no input gains a tap_key_sig or a
\* final_script_witness); with fee_amt <= dust it changes nothing at all, and
\* with fee_amt > dust the amount of exactly one output, an output of the
\* payer, is lowered by fee_amt - dust and nothing else changes.
C29_SetFeesFrame ==
    [][ret'.op = "set_fees" =>
        LET p == psbt[1]
            q == psbt'[1]
            a == ret'.arg
        IN  /\ q.inputs = p.inputs
            /\ q.outputs = p.outputs
            /\ q.unsigned_tx.input = p.unsigned_tx.input
            /\ IF a.fee_amt <= a.dust THEN q = p
               ELSE \E k \in PayerOutputs(p, a.payer) :
                        q.unsigned_tx.output =
                            [p.unsigned_tx.output EXCEPT
                                ![k].value = @ - (a.fee_amt - a.dust)]]_vars

-----------------------------------------------------------------------------
(* The size the fee is computed from.                                      *)

\* C30: the virtual size of a transaction whose taproot inputs were signed by
\* sign_psbt and finalized by finalize_psbt is the virtual size set_fees
\* measures on the fake-signed transaction, whatever the sighash type of the
\* inputs was.
C30_FakeVsizeIsRealVsize ==
    (ret.op = "finalize_psbt" /\ ret.ok) =>
        /\ SignPsbtFake(psbt[1]) # None
        /\ VSize(psbt[1]) = VSize(SignPsbtFake(psbt[1])[1])

-----------------------------------------------------------------------------
(* The fee of set_fees and the change left by create_new_psbt.             *)

\* C31: whenever set_fees has measured the virtual size, the absolute fee it
\* works with is the product fee_rate * vsize: the product is not reduced
\* modulo the width of u32 and the call does not abort on it.
C31_FeeIsExactProduct ==
    (ret.op = "set_fees" /\ ret.arg.vsize > 0) =>
        ret.arg.fee_amt = ret.arg.fee_rate * ret.arg.vsize

\* C32: in the PSBT a successful create_new_psbt returns, the inputs'
\* amounts exceed the outputs' amounts by at least 0 and at most
\* DUST_THRESHOLD, and a set_fees applied directly to it does not return the
\* error "Missing a change output".
C32_CreatedLeavesAtMostDust ==
    [][ /\ (ret'.op = "create_new_psbt" /\ ret'.ok) =>
                /\ FeePaid(psbt'[1]) >= 0
                /\ FeePaid(psbt'[1]) <= DUST_THRESHOLD
        /\ (Created /\ ret'.op = "set_fees") =>
                ret'.arg.err # "Missing a change output" ]_vars

=============================================================================
